---- MODULE Spec2Model ----
(***************************************************************************)
(* A model of random-rails-generator (src/src/lib.rs, src/src/main.rs):    *)
(* build_app lays out a fake Rails application with packs, teams and one   *)
(* of four ownership schemes per pack.                                     *)
(*                                                                         *)
(* Representation.                                                         *)
(*  - A PathBuf is the sequence of its components.                         *)
(*  - A String that may hold line breaks is the sequence of its segments   *)
(*    between "\n" characters: "a\nb\n" is <<"a", "b", "">>.  Cat is       *)
(*    string concatenation on that representation.                         *)
(*  - The file system is dirs (the directories that exist) and files (the  *)
(*    regular files, path -> contents).                                    *)
(*  - A FirstName drawn by the faker is a sequence of one-character        *)
(*    strings, so that the case conversion and the filter of random_name   *)
(*    are computed character by character.                                 *)
(***************************************************************************)
EXTENDS Integers, Sequences, FiniteSets, TLC

VARIABLES
    config,        \* the Config handed to build_app
    dirs,          \* file system: existing directories
    files,         \* file system: regular files, path -> contents
    pc,            \* where build_app is; "done" = Ok(()), "failed" = Err
    clean_start,   \* the run started on a tree without team or pack directories
    ext_failed,    \* an external collaborator reported failure in this run
    packs,         \* the Vec<String> returned by packages()
    idx,           \* how many elements of packs the iterator has yielded
    pack_config,   \* the PackConfig of the pack being built
    team_setup,    \* what setup_team_directory returned for pack_config
    pack_result,   \* what build_pack returned for pack_config
    dir_i,         \* generate_code_files: index into CODE_DIRECTORIES
    file_j         \* generate_code_files: index of the file in 0..30

vars == <<config, dirs, files, pc, clean_start, ext_failed, packs, idx,
          pack_config, team_setup, pack_result, dir_i, file_j>>

(***************************************************************************)
(* Bounds                                                                  *)
(***************************************************************************)
\* largest config.num_packages explored (main.rs sets 100)
MaxPackages == 2
\* how many different first names the faker can draw
NumNames == 2
\* how many of the 26 CODE_DIRECTORIES the loop of generate_code_files visits
NumCodeDirs == 1
\* files written per code directory (30 in the source)
FilesPerDir == 2

(***************************************************************************)
(* Strings                                                                 *)
(***************************************************************************)
\* a + b on strings given as "\n"-separated segments
Cat(a, b) ==
    SubSeq(a, 1, Len(a) - 1) \o <<a[Len(a)] \o b[1]>> \o SubSeq(b, 2, Len(b))

\* the string made of the given lines, each ended by "\n"
Lines(ls) == ls \o <<"">>

(***************************************************************************)
(* random_name: a FirstName, snake-cased, filtered                         *)
(***************************************************************************)
UpperChars == <<"A","B","C","D","E","F","G","H","I","J","K","L","M",
                "N","O","P","Q","R","S","T","U","V","W","X","Y","Z">>
LowerChars == <<"a","b","c","d","e","f","g","h","i","j","k","l","m",
                "n","o","p","q","r","s","t","u","v","w","x","y","z">>
DigitChars == <<"0","1","2","3","4","5","6","7","8","9">>

Range(s) == {s[i] : i \in 1..Len(s)}

IsUpper(c) == c \in Range(UpperChars)
IsLower(c) == c \in Range(LowerChars)
ToLower(c) ==
    IF IsUpper(c)
    THEN LowerChars[CHOOSE i \in 1..26 : UpperChars[i] = c]
    ELSE c

\* char::is_alphanumeric, on the characters the names are made of
is_alphanumeric(c) == IsUpper(c) \/ IsLower(c) \/ c \in Range(DigitChars)

\* the word delimiters of convert_case
IsDelimiter(c) == c \in {" ", "-", "_"}

\* to_case(Case::Snake): words split at delimiters and at a lower-to-upper
\* change, lower-cased, joined by "_"
RECURSIVE SnakeFrom(_, _, _)
SnakeFrom(cs, i, acc) ==
    IF i > Len(cs) THEN acc
    ELSE LET c == cs[i]
             boundary == /\ i > 1
                         /\ IsUpper(c)
                         /\ IsLower(cs[i - 1])
             sep == acc # <<>> /\ acc[Len(acc)] # "_"
         IN  IF IsDelimiter(c)
             THEN SnakeFrom(cs, i + 1, IF sep THEN Append(acc, "_") ELSE acc)
             ELSE SnakeFrom(cs, i + 1,
                            (IF boundary /\ sep THEN Append(acc, "_") ELSE acc)
                                \o <<ToLower(c)>>)

to_case_snake(cs) ==
    LET r == SnakeFrom(cs, 1, <<>>)
    IN  IF r # <<>> /\ r[Len(r)] = "_" THEN SubSeq(r, 1, Len(r) - 1) ELSE r

\* .chars().filter(|c| c.is_alphanumeric() || *c == '_')
name_filter(cs) == SelectSeq(cs, LAMBDA c : is_alphanumeric(c) \/ c = "_")

\* .collect::<String>()
RECURSIVE collect_string(_)
collect_string(cs) ==
    IF cs = <<>> THEN "" ELSE Head(cs) \o collect_string(Tail(cs))

\* the first names the faker may draw
FirstNamePool ==
    << <<"R","i","v","e","r">>,
       <<"M","a","r","y"," ","J","o">>,
       <<"D","'","A","n","n">>,
       <<"L","i">> >>

FirstNames == {FirstNamePool[i] : i \in 1..NumNames}

random_name(first_name) == collect_string(name_filter(to_case_snake(first_name)))

\* every value random_name() can return
Names == {random_name(f) : f \in FirstNames}

(***************************************************************************)
(* Config, PackOwnership, PackConfig                                       *)
(***************************************************************************)
Join(p, q) == p \o q

app_dir == Join(<<config.base_dir>>, <<config.app_name>>)

PackOwnership == {"Directory", "FileAnnotation", "TeamConfig", "PackConfig"}

\* PackOwnership::random, r being the u8 drawn
PackOwnership_random(r) ==
    CASE r % 4 = 0 -> "Directory"
      [] r % 4 = 1 -> "FileAnnotation"
      [] r % 4 = 2 -> "TeamConfig"
      [] OTHER     -> "PackConfig"

\* the u8 values drawn: every residue modulo 4, and both ends of the range
U8 == {0, 1, 2, 3, 254, 255}

PackConfig_new(name, ownership) == [name |-> name, ownership |-> ownership]

NoPack == [name |-> "", ownership |-> "none"]

team_name(pack) == pack.name \o "-team"

\* mutant: the name is not joined
pack_path_no_name(pack) == Join(app_dir, <<"packs">>)

pack_path(pack) == Join(Join(app_dir, <<"packs">>), <<pack.name>>)

\* Path::strip_prefix
strip_prefix(p, prefix) == SubSeq(p, Len(prefix) + 1, Len(p))

\* mutant: the prefix is not stripped
relative_pack_path_unstripped(pack) ==
    Join(Join(app_dir, <<"packs">>), <<pack.name>>)

relative_pack_path(pack) == strip_prefix(pack_path(pack), app_dir)

\* Path::display
RECURSIVE display(_)
display(p) ==
    IF p = <<>> THEN ""
    ELSE IF Len(p) = 1 THEN p[1]
    ELSE p[1] \o "/" \o display(Tail(p))

(***************************************************************************)
(* File system                                                             *)
(***************************************************************************)
Parent(p) == SubSeq(p, 1, Len(p) - 1)

Ancestors(p) == {SubSeq(p, 1, k) : k \in 1..Len(p)}

\* std::fs::create_dir_all(p): every missing component is created; a failure
\* leaves the first k components created
create_dir_all(d, p, ok, k) ==
    IF ok THEN d \cup Ancestors(p) ELSE d \cup Ancestors(SubSeq(p, 1, k))

\* std::fs::write(p, c) succeeds only into an existing directory; a write
\* that fails leaves the file system as it was
can_write(d, p, ok) == ok /\ Parent(p) \in d

fs_write(f, p, c) == (p :> c) @@ f

\* mutant: the existence check never finds the path
exists_never(p) == FALSE

\* Path::exists
exists(p) == p \in dirs \/ p \in DOMAIN files

(***************************************************************************)
(* Constants of the source                                                 *)
(***************************************************************************)
CODE_DIRECTORIES == LowerChars

\* the long prose lines of the source are cut after their first words
FILE_CONTENTS ==
    << "",
       "  def method_1",
       "    puts 'hello'",
       "  end  ",
       "",
       "  def method_2",
       "      puts 'hello 2'",
       "  end",
       "",
       "  def method_3",
       "     puts 'met'",
       "  end",
       "",
       "  The borrow checker is an essential feature of the Rust language ...",
       "",
       "In the last few sentences, we've mentioned ownership ...",
       "",
       "I'll assume that you have some experience writing code ...",
       "",
       "Your programs have access to two kinds of memory ...",
       "",
       "What do I mean by size? ...",
       "",
       "Because data of arbitrary size can be stored on the heap ...",
       "",
       "A pointer is pretty much what it says on the tin ...",
       "",
       "What's the point of having these two different memory stores? ...",
       "" >>

DEFAULT_CODE_OWNERSHIP_YML ==
    << "",
       "---",
       "owned_globs:",
       "  - \"{app,components,config,frontend,lib,packs,spec}/**/*.{rb,rake,js,jsx,ts,tsx,json,yml}\"",
       "unowned_globs:",
       "  - config/code_ownership.yml",
       "javascript_package_paths:",
       "  - javascript/packages/**",
       "vendored_gems_path: gems",
       "team_file_glob:",
       "  - config/teams/**/*.yml",
       "        " >>

DEFAULT_DEVOPS_TEAM_YML ==
    Lines(<< "",
       "name: devops",
       "github:",
       "  team: '@devops'",
       "  members:",
       "  - devops member",
       "owned_globs:",
       "- app/**",
       "- config/application.rb",
       "- config/boot.rb",
       "- config/cable.yml",
       "- config/database.yml",
       "- config/environment.rb",
       "- config/environments/development.rb",
       "- config/environments/production.rb",
       "- config/environments/test.rb",
       "- config/importmap.rb",
       "- config/initializers/assets.rb",
       "- config/initializers/content_security_policy.rb",
       "- config/initializers/filter_parameter_logging.rb",
       "- config/initializers/inflections.rb",
       "- config/initializers/permissions_policy.rb",
       "- config/locales/en.yml",
       "- config/puma.rb",
       "- config/routes.rb",
       "- config/storage.yml",
       "- config/cache.yml",
       "- config/deploy.yml",
       "- config/queue.yml",
       "- config/recurring.yml- config/cache.yml",
       "- config/deploy.yml",
       "- config/queue.yml",
       "- config/recurring.yml",
       "" >>)

(***************************************************************************)
(* Paths and contents the functions compute                                *)
(***************************************************************************)
\* setup_team_directory: app_dir/config/teams/{team_name}
team_dir(team) == Join(Join(app_dir, <<"config", "teams">>), <<team>>)

\* write_team_config: .../{team_name}/{team_name}-team.yml
team_config_path(team) ==
    Join(Join(Join(app_dir, <<"config", "teams">>), <<team>>), <<team \o "-team.yml">>)

generate_team_config(pack, team) ==
    LET base == Lines(<< "name: " \o team,
                         "github:",
                         "  team: '@" \o team \o "'",
                         "  members:",
                         "    - " \o team \o " member" >>)
    IN  IF pack.ownership = "TeamConfig"
        THEN Cat(base, Lines(<< "",
                                "owned_globs:",
                                "  - \"" \o display(relative_pack_path(pack)) \o "/**\"" >>))
        ELSE base

\* setup_infra_team
infra_team_name == "infra"
infra_team_dir == Join(Join(app_dir, <<"config", "teams">>), <<infra_team_name>>)
infra_team_path == Join(infra_team_dir, <<infra_team_name \o ".yml">>)

\* mutant: the Directory arm also taken for every scheme but PackConfig
ownership_file_wrong_arm(pack) ==
    IF pack.ownership = "PackConfig"
    THEN [write |-> TRUE,
          path |-> Join(Join(Join(app_dir, <<"packs">>), <<pack.name>>), <<"package.yml">>),
          contents |-> Lines(<<"owner: " \o pack.name \o "-team">>)]
    ELSE [write |-> TRUE,
          path |-> Join(Join(Join(app_dir, <<"packs">>), <<pack.name>>), <<".codeowner">>),
          contents |-> Lines(<<pack.name \o "-team">>)]

\* write_ownership_files: the file written for the scheme, if any
ownership_file(pack) ==
    CASE pack.ownership = "PackConfig" ->
            [write |-> TRUE,
             path |-> Join(pack_path(pack), <<"package.yml">>),
             contents |-> Lines(<<"owner: " \o team_name(pack)>>)]
      [] pack.ownership = "Directory" ->
            [write |-> TRUE,
             path |-> Join(pack_path(pack), <<".codeowner">>),
             contents |-> Lines(<<team_name(pack)>>)]
      [] OTHER ->
            [write |-> FALSE, path |-> <<>>, contents |-> <<"">>]

\* mutant: the comparison negated
annotate_negated(pack) == pack.ownership # "FileAnnotation"

\* generate_code_files
annotate(pack) == pack.ownership = "FileAnnotation"

code_dir_path(pack, d) ==
    Join(Join(pack_path(pack), <<"app", "services">>), <<CODE_DIRECTORIES[d]>>)

\* write_code_file
code_file_path(dir_path, name) == Join(dir_path, <<name \o ".rb">>)

code_file_contents(name, team, ann) ==
    LET header == IF ann THEN Lines(<<"# @team " \o team>>) ELSE <<"">>
        body == Cat(Cat(Lines(<<"class " \o name>>), FILE_CONTENTS),
                    Lines(<<"", "end">>))
    IN  Cat(header, body)

\* setup_dotslash_tools
dotslash_dir == Join(app_dir, <<".dotslash">>)
tool_path(tool) == Join(dotslash_dir, <<tool>>)
tool_url(tool) ==
    IF tool = "pks" THEN config.pks_dotslash_path
    ELSE config.codeowners_dotslash_path

\* what the server sends: the tool on 200, an error page otherwise
response_body(url, status) ==
    IF status = 200 THEN <<"#!/usr/bin/env dotslash " \o url>>
    ELSE <<"Not Found">>

(***************************************************************************)
(* Control flow                                                            *)
(***************************************************************************)
\* the ? operator: Err returns from build_app
Try(ok, next) == IF ok THEN next ELSE "failed"

\* mutant: the pack directory is set up before the team config is written
build_pack_next_pack_first(step) ==
    CASE step = "setup_team_directory" -> "setup_pack_directory"
      [] step = "setup_pack_directory" -> "write_team_config"
      [] step = "write_team_config" -> "write_ownership_files"
      [] step = "write_ownership_files" -> "code_dir"
      [] OTHER -> "next_pack"

\* build_pack, in the order of its calls
build_pack_next(step) ==
    CASE step = "setup_team_directory" -> "write_team_config"
      [] step = "write_team_config" -> "setup_pack_directory"
      [] step = "setup_pack_directory" -> "write_ownership_files"
      [] step = "write_ownership_files" -> "code_dir"
      [] OTHER -> "next_pack"

\* mutant: AlreadyExists does not return
build_pack_match_no_return(r) == [returns |-> FALSE, result |-> "none"]

\* build_pack, the match on setup_team_directory's result: AlreadyExists
\* returns Ok(()) at once, Success goes on
build_pack_match(r) ==
    IF r = "AlreadyExists"
    THEN [returns |-> TRUE, result |-> "Ok"]
    ELSE [returns |-> FALSE, result |-> "none"]

\* mutant: the results are dropped, the iteration goes on after an Err
collect_results_ignore_err(r) == "next_pack"

\* .map(build_pack).collect::<Result<Vec<_>, _>>()?: the first Err ends the
\* iteration and is returned
collect_results(r) == IF r = "Err" THEN "failed" ELSE "next_pack"

\* a step of build_pack failed
PackFails ==
    /\ pack_result' = "Err"
    /\ pc' = collect_results("Err")

\* no directory directly under config/teams or under packs
NoTeamOrPackDirs(d) ==
    ~ \E p \in d :
        \/ /\ Len(p) = Len(app_dir) + 3
           /\ Parent(p) = Join(app_dir, <<"config", "teams">>)
        \/ /\ Len(p) = Len(app_dir) + 2
           /\ Parent(p) = Join(app_dir, <<"packs">>)

Init ==
    /\ config \in [base_dir : {"gen-play"},
                   app_name : {"my_app"},
                   num_packages : 0..MaxPackages,
                   pks_dotslash_path : {"https://github.com/rubyatscale/pks/releases/download/v0.2.23/pks"},
                   codeowners_dotslash_path : {"https://github.com/rubyatscale/codeowners-rs/releases/download/v0.2.1/codeowners"}]
    /\ dirs = {}
    /\ files = <<>>
    /\ pc = "setup_rails_app"
    /\ clean_start = TRUE
    /\ ext_failed = FALSE
    /\ packs = <<>>
    /\ idx = 0
    /\ pack_config = NoPack
    /\ team_setup = "none"
    /\ pack_result = "none"
    /\ dir_i = 0
    /\ file_j = 0

\* setup_rails_app: `rails new app_dir` (only a spawn failure is an Err; the
\* exit status is not read), then config/code_ownership.yml is written
setup_rails_app ==
    /\ pc = "setup_rails_app"
    /\ \E outcome \in {"spawn_err", "exit_ok", "exit_fail", "exit_fail_late"},
          wok \in BOOLEAN :
        LET skeleton == outcome \in {"exit_ok", "exit_fail_late"}
            d1 == IF skeleton
                  THEN dirs \cup Ancestors(Join(app_dir, <<"config">>))
                  ELSE dirs
            p == Join(app_dir, <<"config", "code_ownership.yml">>)
            w == outcome # "spawn_err" /\ can_write(d1, p, wok)
        IN  /\ dirs' = IF outcome = "spawn_err" THEN dirs ELSE d1
            /\ files' = IF w THEN fs_write(files, p, DEFAULT_CODE_OWNERSHIP_YML)
                        ELSE files
            /\ ext_failed' = (ext_failed \/ outcome \in {"exit_fail", "exit_fail_late"})
            /\ pc' = Try(w, "setup_dotslash_tools")
    /\ UNCHANGED <<config, clean_start, packs, idx, pack_config,
                   team_setup, pack_result, dir_i, file_j>>

\* setup_dotslash_tools, first statement: create_dir_all(.dotslash)
setup_dotslash_tools ==
    /\ pc = "setup_dotslash_tools"
    /\ \E ok \in BOOLEAN, k \in 0..Len(app_dir) :
        /\ dirs' = create_dir_all(dirs, dotslash_dir, ok, k)
        /\ pc' = Try(ok, "fetch_pks")
    /\ UNCHANGED <<config, files, clean_start, ext_failed, packs, idx,
                   pack_config, team_setup, pack_result, dir_i, file_j>>

\* setup_dotslash_tools, one tool: get(url)?.bytes()?, fs::write, make_executable
\* (the status of the response and the exit status of chmod are not read)
fetch_tool(tool, at, next) ==
    /\ pc = at
    /\ \E http \in {0, 200, 404},
          wok \in BOOLEAN,
          chmod \in {"spawn_err", "exit_ok", "exit_fail"} :
        LET got == http # 0
            w == got /\ can_write(dirs, tool_path(tool), wok)
            x == w /\ chmod # "spawn_err"
        IN  /\ files' = IF w
                        THEN fs_write(files, tool_path(tool),
                                      response_body(tool_url(tool), http))
                        ELSE files
            /\ ext_failed' = (\/ ext_failed
                              \/ http = 404
                              \/ (w /\ chmod = "exit_fail"))
            /\ pc' = Try(x, next)
    /\ UNCHANGED <<config, dirs, clean_start, packs, idx, pack_config,
                   team_setup, pack_result, dir_i, file_j>>

fetch_pks == fetch_tool("pks", "fetch_pks", "fetch_codeowners")

fetch_codeowners == fetch_tool("codeowners-rs", "fetch_codeowners", "setup_infra_team")

setup_infra_team ==
    /\ pc = "setup_infra_team"
    /\ \E ok \in BOOLEAN, wok \in BOOLEAN, k \in 0..(Len(infra_team_dir) - 1) :
        LET d1 == create_dir_all(dirs, infra_team_dir, ok, k)
            w == ok /\ can_write(d1, infra_team_path, wok)
        IN  /\ dirs' = d1
            /\ files' = IF w THEN fs_write(files, infra_team_path, DEFAULT_DEVOPS_TEAM_YML)
                        ELSE files
            /\ pc' = Try(w, "packages")
    /\ UNCHANGED <<config, clean_start, ext_failed, packs, idx,
                   pack_config, team_setup, pack_result, dir_i, file_j>>

\* packages(&config.num_packages): num draws of random_name()
packages ==
    /\ pc = "packages"
    /\ \E fs \in [1..config.num_packages -> FirstNames] :
        packs' = [i \in 1..config.num_packages |-> random_name(fs[i])]
    /\ idx' = 0
    /\ pc' = "next_pack"
    /\ UNCHANGED <<config, dirs, files, clean_start, ext_failed,
                   pack_config, team_setup, pack_result, dir_i, file_j>>

\* build_app, the closure of map: the next pack, its ownership, its PackConfig
build_app_next_pack ==
    /\ pc = "next_pack"
    /\ idx < Len(packs)
    /\ idx' = idx + 1
    /\ \E r \in U8 :
        pack_config' = PackConfig_new(packs[idx + 1], PackOwnership_random(r))
    /\ team_setup' = "none"
    /\ pack_result' = "none"
    /\ pc' = "setup_team_directory"
    /\ UNCHANGED <<config, dirs, files, clean_start, ext_failed, packs,
                   dir_i, file_j>>

\* build_app: the iterator is exhausted, Ok(())
build_app_done ==
    /\ pc = "next_pack"
    /\ idx = Len(packs)
    /\ pc' = "done"
    /\ UNCHANGED <<config, dirs, files, clean_start, ext_failed, packs,
                   idx, pack_config, team_setup, pack_result, dir_i, file_j>>

\* setup_team_directory, and the match on its result in build_pack
setup_team_directory ==
    /\ pc = "setup_team_directory"
    /\ LET td == team_dir(team_name(pack_config))
           found == exists(td)
       IN  \E ok \in BOOLEAN, k \in 0..(Len(td) - 1) :
            LET r == IF found THEN "AlreadyExists"
                     ELSE IF ok THEN "Success" ELSE "Err"
                m == build_pack_match(r)
            IN  /\ found => ok
                /\ dirs' = IF found THEN dirs ELSE create_dir_all(dirs, td, ok, k)
                /\ IF r = "Err"
                   THEN /\ team_setup' = team_setup
                        /\ PackFails
                   ELSE /\ team_setup' = r
                        /\ pack_result' = m.result
                        /\ pc' = IF m.returns THEN collect_results(m.result)
                                 ELSE build_pack_next("setup_team_directory")
    /\ UNCHANGED <<config, files, clean_start, ext_failed, packs, idx,
                   pack_config, dir_i, file_j>>

write_team_config ==
    /\ pc = "write_team_config"
    /\ \E wok \in BOOLEAN :
        LET team == team_name(pack_config)
            p == team_config_path(team)
        IN  IF can_write(dirs, p, wok)
            THEN /\ files' = fs_write(files, p, generate_team_config(pack_config, team))
                 /\ pack_result' = pack_result
                 /\ pc' = build_pack_next("write_team_config")
            ELSE /\ files' = files
                 /\ PackFails
    /\ UNCHANGED <<config, dirs, clean_start, ext_failed, packs, idx,
                   pack_config, team_setup, dir_i, file_j>>

setup_pack_directory ==
    /\ pc = "setup_pack_directory"
    /\ \E ok \in BOOLEAN, k \in 0..(Len(pack_path(pack_config)) - 1) :
        /\ dirs' = create_dir_all(dirs, pack_path(pack_config), ok, k)
        /\ IF ok
           THEN /\ pack_result' = pack_result
                /\ pc' = build_pack_next("setup_pack_directory")
           ELSE PackFails
    /\ UNCHANGED <<config, files, clean_start, ext_failed, packs, idx,
                   pack_config, team_setup, dir_i, file_j>>

write_ownership_files ==
    /\ pc = "write_ownership_files"
    /\ \E wok \in BOOLEAN :
        LET o == ownership_file(pack_config)
        IN  IF o.write => can_write(dirs, o.path, wok)
            THEN /\ files' = IF o.write THEN fs_write(files, o.path, o.contents)
                             ELSE files
                 /\ pack_result' = pack_result
                 /\ pc' = build_pack_next("write_ownership_files")
                 /\ dir_i' = 1
                 /\ file_j' = 0
            ELSE /\ files' = files
                 /\ PackFails
                 /\ UNCHANGED <<dir_i, file_j>>
    /\ UNCHANGED <<config, dirs, clean_start, ext_failed, packs, idx,
                   pack_config, team_setup>>

\* generate_code_files, outer loop: create_dir_all(dir_path)
generate_code_files ==
    /\ pc = "code_dir"
    /\ LET dp == code_dir_path(pack_config, dir_i)
       IN  \E ok \in BOOLEAN, k \in Len(pack_path(pack_config))..(Len(dp) - 1) :
            /\ dirs' = create_dir_all(dirs, dp, ok, k)
            /\ IF ok
               THEN /\ pack_result' = pack_result
                    /\ pc' = "code_file"
                    /\ file_j' = 0
               ELSE /\ PackFails
                    /\ file_j' = file_j
    /\ UNCHANGED <<config, files, clean_start, ext_failed, packs, idx,
                   pack_config, team_setup, dir_i>>

\* generate_code_files, inner loop: write_code_file(dir_path, random_name(), ..)
write_code_file ==
    /\ pc = "code_file"
    /\ \E f \in FirstNames, wok \in BOOLEAN :
        LET name == random_name(f)
            p == code_file_path(code_dir_path(pack_config, dir_i), name)
            c == code_file_contents(name, team_name(pack_config), annotate(pack_config))
        IN  IF can_write(dirs, p, wok)
            THEN /\ files' = fs_write(files, p, c)
                 /\ IF file_j + 1 < FilesPerDir
                    THEN /\ file_j' = file_j + 1
                         /\ UNCHANGED <<dir_i, pc, pack_result>>
                    ELSE IF dir_i < NumCodeDirs
                    THEN /\ dir_i' = dir_i + 1
                         /\ pc' = "code_dir"
                         /\ UNCHANGED <<file_j, pack_result>>
                    ELSE /\ pack_result' = "Ok"
                         /\ pc' = collect_results("Ok")
                         /\ UNCHANGED <<dir_i, file_j>>
            ELSE /\ files' = files
                 /\ PackFails
                 /\ UNCHANGED <<dir_i, file_j>>
    /\ UNCHANGED <<config, dirs, clean_start, ext_failed, packs, idx,
                   pack_config, team_setup>>

\* main: build_app(config) is run again, any number of times, on the tree the
\* last run left
main ==
    /\ pc \in {"done", "failed"}
    /\ clean_start' = NoTeamOrPackDirs(dirs)
    /\ ext_failed' = FALSE
    /\ packs' = <<>>
    /\ idx' = 0
    /\ pack_config' = NoPack
    /\ team_setup' = "none"
    /\ pack_result' = "none"
    /\ dir_i' = 0
    /\ file_j' = 0
    /\ pc' = "setup_rails_app"
    /\ UNCHANGED <<config, dirs, files>>

Next ==
    \/ setup_rails_app
    \/ setup_dotslash_tools
    \/ fetch_pks
    \/ fetch_codeowners
    \/ setup_infra_team
    \/ packages
    \/ build_app_next_pack
    \/ build_app_done
    \/ setup_team_directory
    \/ write_team_config
    \/ setup_pack_directory
    \/ write_ownership_files
    \/ generate_code_files
    \/ write_code_file
    \/ main

Spec == Init /\ [][Next]_vars

(***************************************************************************)
(* Vocabulary of the properties: the paths of the generated tree, written  *)
(* out as the specification of the tree gives them                         *)
(***************************************************************************)
AppRoot == <<"gen-play", "my_app">>
TeamsRoot == AppRoot \o <<"config", "teams">>
PacksRoot == AppRoot \o <<"packs">>

TeamOf(n) == n \o "-team"
TeamDirOf(n) == TeamsRoot \o <<TeamOf(n)>>
TeamFileOf(n) == TeamDirOf(n) \o <<TeamOf(n) \o "-team.yml">>
PackDirOf(n) == PacksRoot \o <<n>>
CodeownerOf(n) == PackDirOf(n) \o <<".codeowner">>
PackageYmlOf(n) == PackDirOf(n) \o <<"package.yml">>

IsUnder(p, d) == Len(p) > Len(d) /\ SubSeq(p, 1, Len(d)) = d

\* the generated source files of pack n: packs/n/app/services/<dir>/<file>
SourceFilesOf(n) ==
    {p \in DOMAIN files :
        /\ Len(p) = Len(PackDirOf(n)) + 4
        /\ IsUnder(p, PackDirOf(n) \o <<"app", "services">>)}

HeaderOf(n) == "# @team " \o TeamOf(n)
BeginsWithHeader(c, n) == Len(c) >= 2 /\ c[1] = HeaderOf(n)
ContainsHeader(c, n) == \E i \in 1..Len(c) : c[i] = HeaderOf(n)

HasLine(c, l) == \E i \in 1..(Len(c) - 1) : c[i] = l

\* the team directories and the pack directories of the tree
TeamDirs == {p \in dirs : Len(p) = Len(TeamsRoot) + 1 /\ IsUnder(p, TeamsRoot)}
PackDirs == {p \in dirs : Len(p) = Len(PacksRoot) + 1 /\ IsUnder(p, PacksRoot)}

\* the pack of pack_config went through the gate
PastGate == team_setup = "Success"
\* build_pack built the pack of pack_config and returned Ok(())
Built == PastGate /\ pack_result = "Ok"

Distinct(s) == \A i, j \in 1..Len(s) : i # j => s[i] # s[j]

(***************************************************************************)
(* C1: a pack built with scheme s holds .codeowner ("{name}-team\n") iff s  *)
(* is Directory and package.yml ("owner: {name}-team\n") iff s is           *)
(* PackConfig; no pack directory ever holds both files.                     *)
(***************************************************************************)
C1_ArtifactsMatchScheme ==
    /\ Built =>
        LET n == pack_config.name
            s == pack_config.ownership
        IN  /\ (CodeownerOf(n) \in DOMAIN files) <=> (s = "Directory")
            /\ s = "Directory" => files[CodeownerOf(n)] = <<TeamOf(n), "">>
            /\ (PackageYmlOf(n) \in DOMAIN files) <=> (s = "PackConfig")
            /\ s = "PackConfig" => files[PackageYmlOf(n)] = <<"owner: " \o TeamOf(n), "">>
    /\ \A n \in Names :
        ~ (CodeownerOf(n) \in DOMAIN files /\ PackageYmlOf(n) \in DOMAIN files)

\* a Directory pack is built next to a PackConfig pack built earlier
C1_Witness ==
    /\ Built
    /\ pack_config.ownership = "Directory"
    /\ CodeownerOf(pack_config.name) \in DOMAIN files
    /\ \E m \in Names : PackageYmlOf(m) \in DOMAIN files

(***************************************************************************)
(* C2: every source file of a pack built with FileAnnotation begins with    *)
(* the line "# @team {name}-team"; no source file of a pack built with      *)
(* another scheme contains that line; also when file names collide.         *)
(***************************************************************************)
C2_HeaderIffFileAnnotation ==
    /\ PastGate =>
        \A p \in SourceFilesOf(pack_config.name) :
            IF pack_config.ownership = "FileAnnotation"
            THEN BeginsWithHeader(files[p], pack_config.name)
            ELSE ~ ContainsHeader(files[p], pack_config.name)
    /\ \A n \in Names :
        \/ \A p \in SourceFilesOf(n) : BeginsWithHeader(files[p], n)
        \/ \A p \in SourceFilesOf(n) : ~ ContainsHeader(files[p], n)

\* a FileAnnotation pack is built, two of its files collided on one name
C2_Witness ==
    /\ Built
    /\ pack_config.ownership = "FileAnnotation"
    /\ SourceFilesOf(pack_config.name) # {}
    /\ Cardinality(SourceFilesOf(pack_config.name)) < NumCodeDirs * FilesPerDir
    /\ \E m \in Names :
        /\ m # pack_config.name
        /\ \E p \in SourceFilesOf(m) : ~ ContainsHeader(files[p], m)

GlobLineOf(n) == "  - \"packs/" \o n \o "/**\""

OwnedGlobsOk(c, n) ==
    /\ Len(c) >= 3
    /\ c[Len(c) - 2] = "owned_globs:"
    /\ c[Len(c) - 1] = GlobLineOf(n)
    /\ \A i \in 1..(Len(c) - 1) : c[i] = "owned_globs:" => i = Len(c) - 2

(***************************************************************************)
(* C3: the team config of a pack has an owned_globs section iff the scheme  *)
(* is TeamConfig; the section then holds the one glob "packs/{name}/**",    *)
(* the pack's directory relative to the application root.                   *)
(***************************************************************************)
C3_OwnedGlobsIffTeamConfig ==
    /\ (PastGate /\ TeamFileOf(pack_config.name) \in DOMAIN files) =>
        LET c == files[TeamFileOf(pack_config.name)]
        IN  /\ HasLine(c, "owned_globs:") <=> (pack_config.ownership = "TeamConfig")
            /\ pack_config.ownership = "TeamConfig" => OwnedGlobsOk(c, pack_config.name)
            /\ Built => AppRoot \o <<"packs", pack_config.name>> \in dirs
    /\ \A n \in Names :
        (TeamFileOf(n) \in DOMAIN files /\ HasLine(files[TeamFileOf(n)], "owned_globs:"))
            => OwnedGlobsOk(files[TeamFileOf(n)], n)

\* a TeamConfig pack is built; another pack's team config has no owned_globs
C3_Witness ==
    /\ Built
    /\ pack_config.ownership = "TeamConfig"
    /\ HasLine(files[TeamFileOf(pack_config.name)], "owned_globs:")
    /\ \E m \in Names :
        /\ TeamFileOf(m) \in DOMAIN files
        /\ ~ HasLine(files[TeamFileOf(m)], "owned_globs:")

(***************************************************************************)
(* C4: setup_team_directory creates an absent team directory and returns    *)
(* Success, and returns AlreadyExists ever after; build_pack for a name     *)
(* whose team directory exists returns Ok(()) and leaves the tree as it is. *)
(***************************************************************************)
C4_GateIsIdempotent ==
    [][ /\ dirs \subseteq dirs'
        /\ (pc = "setup_team_directory" /\ TeamDirOf(pack_config.name) \in dirs) =>
              /\ team_setup' = "AlreadyExists"
              /\ pack_result' = "Ok"
              /\ pc' = "next_pack"
              /\ dirs' = dirs
              /\ files' = files
        /\ (pc = "setup_team_directory" /\ TeamDirOf(pack_config.name) \notin dirs) =>
              \/ /\ team_setup' = "Success"
                 /\ TeamDirOf(pack_config.name) \in dirs'
              \/ /\ pack_result' = "Err"
                 /\ pc' = "failed"
      ]_vars

\* a later run meets the pack an earlier run built with another scheme
C4_Witness ==
    /\ ~ clean_start
    /\ team_setup = "AlreadyExists"
    /\ pack_result = "Ok"
    /\ CodeownerOf(pack_config.name) \in DOMAIN files
    /\ pack_config.ownership = "PackConfig"
    /\ \A i \in 1..(idx - 1) : packs[i] # pack_config.name

(***************************************************************************)
(* C5: a successful run on a tree without team and pack directories, with   *)
(* N pairwise different names, leaves exactly N pack team directories, N    *)
(* pack directories (one pair per name) and the one bootstrap team          *)
(* directory.                                                              *)
(***************************************************************************)
C5_OnePairPerName ==
    (pc = "done" /\ clean_start /\ Distinct(packs)) =>
        /\ Len(packs) = config.num_packages
        /\ \A i \in 1..Len(packs) :
            TeamDirOf(packs[i]) \in dirs /\ PackDirOf(packs[i]) \in dirs
        /\ Cardinality(PackDirs) = config.num_packages
        /\ TeamsRoot \o <<"infra">> \in dirs
        /\ Cardinality(TeamDirs \ {TeamsRoot \o <<"infra">>}) = config.num_packages
        /\ Cardinality(TeamDirs) = config.num_packages + 1

C5_Witness ==
    /\ pc = "done"
    /\ clean_start
    /\ Len(packs) = MaxPackages
    /\ Len(packs) >= 2
    /\ Distinct(packs)

(***************************************************************************)
(* C6: packs are built one after another; the first build_pack that fails   *)
(* makes build_app return the error, no later pack is started, and what     *)
(* was written before the failure stays as it is.                           *)
(***************************************************************************)
C6_FirstFailureAborts ==
    [][ /\ pack_result' = "Err" => pc' = "failed"
        /\ pc = "failed" =>
              /\ pc' = "setup_rails_app"
              /\ idx' = 0
              /\ dirs' = dirs
              /\ files' = files
        /\ idx' # idx =>
              \/ pc = "next_pack" /\ idx' = idx + 1
              \/ idx' = 0
        /\ (pack_result' = "Err" /\ pack_result # "Err") =>
              /\ idx' = idx
              /\ dirs \subseteq dirs'
              /\ files' = files
      ]_vars

\* the first of two packs fails after part of it was written
C6_Witness ==
    /\ pc = "failed"
    /\ pack_result = "Err"
    /\ idx < Len(packs)
    /\ PackDirOf(pack_config.name) \in dirs
    /\ packs[idx + 1] # pack_config.name
    /\ TeamDirOf(packs[idx + 1]) \notin dirs

(***************************************************************************)
(* C7: when the scaffold command or chmod exits unsuccessfully, or a tool   *)
(* is answered with a non-success status, build_app returns an error: the   *)
(* run writes no bootstrap team and no pack afterwards and does not end     *)
(* in success.                                                              *)
(***************************************************************************)
C7_ExternalFailureIsFatal ==
    ext_failed =>
        pc \in {"setup_dotslash_tools", "fetch_pks", "fetch_codeowners",
                "setup_infra_team", "failed"}

DescriptorOk(team) ==
    LET p == TeamsRoot \o <<team, team \o "-team.yml">>
    IN  /\ p \in DOMAIN files
        /\ HasLine(files[p], "name: " \o team)

(***************************************************************************)
(* C8: every team written has its descriptor at                             *)
(* config/teams/{team}/{team}-team.yml, with the team's name in its name    *)
(* field: the pack teams "{name}-team" and the bootstrap team "infra".      *)
(***************************************************************************)
C8_TeamDescriptors ==
    /\ pc \in {"packages", "next_pack", "done"} => DescriptorOk("infra")
    /\ \A n \in Names : PackDirOf(n) \in dirs => DescriptorOk(TeamOf(n))

(***************************************************************************)
(* C9 as claimed: build_pack is never invoked twice with the same name in   *)
(* one run.                                                                 *)
(***************************************************************************)
C9_NeverInvokedTwice ==
    \A i, j \in 1..idx : i # j => packs[i] # packs[j]

InPackPhase ==
    pc \notin {"setup_rails_app", "setup_dotslash_tools", "fetch_pks",
               "fetch_codeowners", "setup_infra_team", "packages"}

(***************************************************************************)
(* C9 amended: build_app draws num_packages names, which may repeat, and    *)
(* invokes build_pack once for each in order; of the invocations with one   *)
(* name in a run only the first can go through the gate, the later ones     *)
(* return AlreadyExists.                                                    *)
(***************************************************************************)
C9_RepeatedNameIsSkipped ==
    /\ (InPackPhase /\ packs # <<>>) => Len(packs) = config.num_packages
    /\ idx \in 0..Len(packs)
    /\ idx >= 1 => pack_config.name = packs[idx]
    /\ pc = "done" => idx = Len(packs)
    /\ (idx >= 1 /\ \E i \in 1..(idx - 1) : packs[i] = packs[idx]) =>
            team_setup \in {"none", "AlreadyExists"}

\* the second invocation with a name returned AlreadyExists
C9_Witness ==
    /\ idx >= 2
    /\ \E i \in 1..(idx - 1) : packs[i] = packs[idx]
    /\ team_setup = "AlreadyExists"
    /\ pc = "done"

(***************************************************************************)
(* C10: in every state, also after a failed a pack directory exists    *)
(* only if its team directory exists and holds the team config, and         *)
(* anything under a pack directory exists only if the pack directory does.  *)
(***************************************************************************)
C10_TeamBeforePack ==
    \A n \in Names :
        /\ PackDirOf(n) \in dirs =>
            /\ TeamDirOf(n) \in dirs
            /\ TeamFileOf(n) \in DOMAIN files
        /\ (\E p \in dirs \cup DOMAIN files : IsUnder(p, PackDirOf(n))) =>
            PackDirOf(n) \in dirs

\* after a failed run: a team directory without its pack, beside a built pack
C10_Witness ==
    /\ pc = "failed"
    /\ ~ clean_start
    /\ \E n, m \in Names :
        /\ TeamDirOf(n) \in dirs
        /\ PackDirOf(n) \notin dirs
        /\ PackDirOf(m) \in dirs
        /\ SourceFilesOf(m) # {}

====
